---- MODULE Spec2Model ----
(***************************************************************************)
(* A model of the block file system simulator of src/fs-sim.c: the         *)
(* in-memory superblock, the shared buffer, the current directory, the     *)
(* mounted image and the disk images on the host, with one action per      *)
(* fs_* operation.                                                         *)
(*                                                                         *)
(* A disk has NumBlocks blocks (128 in the source) and NumInodes inodes    *)
(* (126 in the source).  A 1024-byte block is one value of 0..MaxData, 0   *)
(* being the zero-filled block: the code only moves, zeroes and compares   *)
(* whole blocks.  The packed bytes used_size and dir_parent are integers   *)
(* 0..255 and are unpacked as the code unpacks them.                       *)
(***************************************************************************)
EXTENDS Integers, Sequences, FiniteSets, TLC

VARIABLES superblock, buffer, current_disk, current_dir_inode, disks, last,
          crashed, steps, args

vars == <<superblock, buffer, current_disk, current_dir_inode, disks, last,
          crashed, steps, args>>

(***************************************************************************)
(* Bounds of the model and constants of the program.                       *)
(***************************************************************************)
NumBlocks == 5

NumInodes == 4

MaxData == 2

\* the number of commands in the command file
MaxSteps == 4

RootParent == 127

ReservedParent == 126

FlagBit == 128

LastBlock == NumBlocks - 1

Blocks == 0 .. LastBlock

DataBlocks == 1 .. LastBlock

Inodes == 0 .. (NumInodes - 1)

Contents == 0 .. MaxData

NULL == "NULL"

(***************************************************************************)
(* Names: five raw bytes.  The driver reads a name with sscanf("%5s"), so  *)
(* a name it passes has no space and no byte after its first zero byte.    *)
(***************************************************************************)
NameA == <<97, 0, 0, 0, 0>>

NameB == <<98, 0, 0, 0, 0>>

NameDot == <<46, 0, 0, 0, 0>>

NameDotDot == <<46, 46, 0, 0, 0>>

NameZero == <<0, 0, 0, 0, 0>>

DriverNames == {NameA, NameB}

CdNames == DriverNames \cup {NameDot, NameDotDot}

(***************************************************************************)
(* Inodes, superblocks and images.                                         *)
(***************************************************************************)
Inode(name, used_size, start_block, dir_parent) ==
    [name |-> name, used_size |-> used_size,
     start_block |-> start_block, dir_parent |-> dir_parent]

ZeroInode == Inode(NameZero, 0, 0, 0)

InUse(ino) == (ino.used_size \div FlagBit) % 2 = 1

SizeOf(ino) == ino.used_size % FlagBit

IsDir(ino) == (ino.dir_parent \div FlagBit) % 2 = 1

ParentOf(ino) == ino.dir_parent % FlagBit

IsFile(ino) == InUse(ino) /\ ~IsDir(ino)

get_block_bit(sb, block_num) == sb.free_block_list[block_num] = 1

set_block_bit(sb, block_num, value) ==
    IF block_num \in Blocks
    THEN [sb EXCEPT !.free_block_list[block_num] = IF value THEN 1 ELSE 0]
    ELSE sb

\* set_block_bit over the run [start, start+size), as the code's loops do
RECURSIVE SetRun(_, _, _, _)
SetRun(sb, start, size, value) ==
    IF size <= 0 THEN sb
    ELSE SetRun(set_block_bit(sb, start, value), start + 1, size - 1, value)

find_free_inode(sb) ==
    IF \E i \in Inodes : ~InUse(sb.inode[i])
    THEN CHOOSE i \in Inodes :
            /\ ~InUse(sb.inode[i])
            /\ \A j \in Inodes : j < i => InUse(sb.inode[j])
    ELSE -1

RunFree(sb, start, size) ==
    \A i \in 0 .. (size - 1) : ~get_block_bit(sb, start + i)

\* a search that looks only at the first block of a run
find_contiguous_blocks_first_only(sb, size) ==
    IF size <= 0 THEN 0
    ELSE LET cand == {s \in 1 .. (LastBlock - size + 1) : RunFree(sb, s, 1)}
         IN  IF cand = {} THEN -1
             ELSE CHOOSE s \in cand : \A t \in cand : s <= t

\* a search whose last start is one too far
find_contiguous_blocks_off_by_one(sb, size) ==
    IF size <= 0 THEN 0
    ELSE LET free(b) == b \notin Blocks \/ ~get_block_bit(sb, b)
             cand == {s \in 1 .. (LastBlock - size + 2) :
                        \A i \in 0 .. (size - 1) : free(s + i)}
         IN  IF cand = {} THEN -1
             ELSE CHOOSE s \in cand : \A t \in cand : s <= t

find_contiguous_blocks(sb, size) ==
    IF size <= 0 THEN 0
    ELSE LET cand == {s \in 1 .. (LastBlock - size + 1) : RunFree(sb, s, size)}
         IN  IF cand = {} THEN -1
             ELSE CHOOSE s \in cand : \A t \in cand : s <= t

(***************************************************************************)
(* compare_inode_names: both names are copied with strncpy(.., 5) into     *)
(* zeroed 6-byte arrays, every space byte is replaced by a zero byte, and  *)
(* the two are compared with strcmp, which stops at the first zero byte.   *)
(***************************************************************************)
RECURSIVE StrnCpy(_, _)
StrnCpy(name, i) ==
    IF i > 5 THEN <<>>
    ELSE IF name[i] = 0 THEN [k \in 1 .. (6 - i) |-> 0]
    ELSE <<name[i]>> \o StrnCpy(name, i + 1)

SpacesToZero(t) == [k \in 1 .. 5 |-> IF t[k] = 32 THEN 0 ELSE t[k]]

RECURSIVE CString(_, _)
CString(t, i) ==
    IF i > 5 \/ t[i] = 0 THEN <<>> ELSE <<t[i]>> \o CString(t, i + 1)

compare_inode_names(name1, name2) ==
    CString(SpacesToZero(StrnCpy(name1, 1)), 1)
        = CString(SpacesToZero(StrnCpy(name2, 1)), 1)

(***************************************************************************)
(* check_consistency: the number of the first failing check, 0 when the    *)
(* in-memory superblock passes all six.                                    *)
(***************************************************************************)
Check1Fails(sb) ==
    \E i \in Inodes : ~InUse(sb.inode[i]) /\ sb.inode[i].start_block # 0

Check2Fails(sb) ==
    \E i \in Inodes :
        /\ IsFile(sb.inode[i])
        /\ LET size == SizeOf(sb.inode[i])
               start == sb.inode[i].start_block
           IN  \/ start < 1
               \/ start > LastBlock
               \/ start + size - 1 < 1
               \/ start + size - 1 > LastBlock

Check3Fails(sb) ==
    \E i \in Inodes :
        /\ InUse(sb.inode[i]) /\ IsDir(sb.inode[i])
        /\ (sb.inode[i].start_block # 0 \/ SizeOf(sb.inode[i]) # 0)

Check4Fails(sb) ==
    \E i \in Inodes :
        /\ InUse(sb.inode[i])
        /\ LET parent == ParentOf(sb.inode[i])
           IN  \/ parent = ReservedParent
               \/ /\ parent # RootParent
                  /\ \/ parent < 0
                     \/ parent > NumInodes - 1
                     \/ ~InUse(sb.inode[parent])
                     \/ ~IsDir(sb.inode[parent])

Check5Fails(sb) ==
    \E dir \in Inodes :
        /\ InUse(sb.inode[dir]) /\ IsDir(sb.inode[dir])
        /\ \E i, j \in Inodes :
              /\ i < j
              /\ InUse(sb.inode[i]) /\ InUse(sb.inode[j])
              /\ ParentOf(sb.inode[i]) = dir
              /\ ParentOf(sb.inode[j]) = dir
              /\ compare_inode_names(sb.inode[i].name, sb.inode[j].name)

\* block_usage[b] of check 6: the number of in-use files whose run holds b
block_usage(sb, b) ==
    IF b = 0 THEN 1
    ELSE Cardinality({i \in Inodes :
            /\ IsFile(sb.inode[i])
            /\ sb.inode[i].start_block <= b
            /\ b < sb.inode[i].start_block + SizeOf(sb.inode[i])})

Check6Fails(sb) ==
    \E i \in Blocks :
        IF i = 0 THEN ~get_block_bit(sb, i)
        ELSE get_block_bit(sb, i) # (block_usage(sb, i) > 0)

\* a verifier that looks at the bitmap before the inodes
check_consistency_bitmap_first(sb) ==
    IF Check6Fails(sb) THEN 6
    ELSE IF Check1Fails(sb) THEN 1
    ELSE IF Check2Fails(sb) THEN 2
    ELSE IF Check3Fails(sb) THEN 3
    ELSE IF Check4Fails(sb) THEN 4
    ELSE IF Check5Fails(sb) THEN 5
    ELSE 0

check_consistency(sb) ==
    IF Check1Fails(sb) THEN 1
    ELSE IF Check2Fails(sb) THEN 2
    ELSE IF Check3Fails(sb) THEN 3
    ELSE IF Check4Fails(sb) THEN 4
    ELSE IF Check5Fails(sb) THEN 5
    ELSE IF Check6Fails(sb) THEN 6
    ELSE 0

(***************************************************************************)
(* Disk images.  An image is its superblock (block 0) and the contents of  *)
(* its data blocks.                                                        *)
(***************************************************************************)
Image(sb, data) == [sb |-> sb, data |-> data]

ReadBlock(data, b) == IF b \in DataBlocks THEN data[b] ELSE 0

WriteBlock(data, b, v) == IF b \in DataBlocks THEN [data EXCEPT ![b] = v] ELSE data

\* fwrite of a zero block over the run [start, start+size)
RECURSIVE ZeroRun(_, _, _)
ZeroRun(data, start, size) ==
    IF size <= 0 THEN data
    ELSE ZeroRun(WriteBlock(data, start, 0), start + 1, size - 1)

\* the copy loops of fs_resize and fs_defrag: block src+i is read and
\* written to dst+i, for i = i0 .. n-1 in this order
RECURSIVE CopyRun(_, _, _, _, _)
CopyRun(data, src, dst, i0, n) ==
    IF i0 >= n THEN data
    ELSE CopyRun(WriteBlock(data, dst + i0, ReadBlock(data, src + i0)),
                 src, dst, i0 + 1, n)

ZeroSuperblock ==
    [free_block_list |-> [b \in Blocks |-> 0],
     inode |-> [i \in Inodes |-> ZeroInode]]

ZeroData == [b \in DataBlocks |-> 0]

\* a formatted empty image: only block 0 is in use
CleanImage ==
    Image([ZeroSuperblock EXCEPT !.free_block_list[0] = 1], ZeroData)

\* inode 0: directory "a" in the root; inode 1: directory "b" in directory
\* 0; inode 2: file "a" in directory 1, blocks 2 and 3, with block 1 free
TreeImage ==
    Image([free_block_list |-> [b \in Blocks |-> IF b \in {0, 2, 3} THEN 1 ELSE 0],
           inode |-> [i \in Inodes |->
              CASE i = 0 -> Inode(NameA, FlagBit, 0, FlagBit + RootParent)
                [] i = 1 -> Inode(NameB, FlagBit, 0, FlagBit + 0)
                [] i = 2 -> Inode(NameA, FlagBit + 2, 2, 1)
                [] OTHER -> ZeroInode]],
          [b \in DataBlocks |-> IF b = 2 THEN 1 ELSE IF b = 3 THEN MaxData ELSE 0])

\* inode 0: directory "a" in the root; inodes 1 and 2: files "b" and "a" in
\* directory 0, one block each, at blocks 1 and 2
PackedImage ==
    Image([free_block_list |-> [b \in Blocks |-> IF b \in {0, 1, 2} THEN 1 ELSE 0],
           inode |-> [i \in Inodes |->
              CASE i = 0 -> Inode(NameA, FlagBit, 0, FlagBit + RootParent)
                [] i = 1 -> Inode(NameB, FlagBit + 1, 1, 0)
                [] i = 2 -> Inode(NameA, FlagBit + 1, 2, 0)
                [] OTHER -> ZeroInode]],
          [b \in DataBlocks |-> IF b = 1 THEN 1 ELSE IF b = 2 THEN MaxData ELSE 0])

\* an image whose bitmap marks block 1 used although no file holds it
BadImage ==
    Image([ZeroSuperblock EXCEPT !.free_block_list[0] = 1,
                                 !.free_block_list[1] = 1], ZeroData)

\* an image that fails check 6 (bit 1 set, no file) and whose inode 1 is a
\* directory b of the root
StaleImage ==
    Image([ZeroSuperblock EXCEPT !.free_block_list[0] = 1,
                                 !.free_block_list[1] = 1,
                                 !.inode[1] = Inode(NameB, FlagBit, 0,
                                                    FlagBit + RootParent)],
          ZeroData)

DiskNames == {"clean", "tree", "packed", "bad", "stale"}

\* a path at which there is no image
Paths == DiskNames \cup {"nodisk"}

InitialDisks ==
    [d \in DiskNames |->
        CASE d = "clean" -> CleanImage
          [] d = "tree" -> TreeImage
          [] d = "packed" -> PackedImage
          [] d = "stale" -> StaleImage
          [] OTHER -> BadImage]

Last(op, diag, code) == [op |-> op, diag |-> diag, code |-> code]

\* the arguments the driver has parsed from the command line it runs
Args(name, num) == [path |-> NULL, name |-> name, num |-> num]

MountArgs(path) == [path |-> path, name |-> NameZero, num |-> 0]

(***************************************************************************)
(* The operations.  Each works on the in-memory superblock and on the      *)
(* mounted image; write_superblock copies the superblock to block 0 of the *)
(* mounted image.                                                          *)
(***************************************************************************)
Mounted == ~crashed /\ current_disk # NULL

write_superblock(ds, sb) == [ds EXCEPT ![current_disk].sb = sb]

NotMounted(op) ==
    /\ ~crashed
    /\ current_disk = NULL
    /\ last' = Last(op, "not_mounted", 0)
    /\ UNCHANGED <<superblock, buffer, current_disk, current_dir_inode, disks,
                   crashed>>

\* the lookup loops of fs_delete, fs_read, fs_write, fs_resize and fs_cd
\* stop at the first inode index that matches; -1 when none does
FirstInode(matching) ==
    IF matching = {} THEN -1
    ELSE CHOOSE i \in matching : \A j \in matching : i <= j

ChildOfCurrent(sb, i, name) ==
    /\ InUse(sb.inode[i])
    /\ ParentOf(sb.inode[i]) = current_dir_inode
    /\ compare_inode_names(sb.inode[i].name, name)

FindChild(sb, name) ==
    FirstInode({i \in Inodes : ChildOfCurrent(sb, i, name)})

FindFile(sb, name) ==
    FirstInode({i \in Inodes : ChildOfCurrent(sb, i, name) /\ ~IsDir(sb.inode[i])})

FindDir(sb, name) ==
    FirstInode({i \in Inodes : ChildOfCurrent(sb, i, name) /\ IsDir(sb.inode[i])})

\* a mount that leaves the buffer as it was
fs_mount_keeps_buffer(new_disk_name) ==
    /\ ~crashed
    /\ IF new_disk_name \notin DOMAIN disks
       THEN /\ last' = Last("mount", "cannot_find_disk", 0)
            /\ UNCHANGED <<superblock, buffer, current_disk, current_dir_inode>>
       ELSE LET sb == disks[new_disk_name].sb
                consistency == check_consistency(sb)
            IN  /\ superblock' = sb
                /\ IF consistency # 0
                   THEN /\ last' = Last("mount", "inconsistent", consistency)
                        /\ UNCHANGED <<buffer, current_disk, current_dir_inode>>
                   ELSE /\ current_disk' = new_disk_name
                        /\ current_dir_inode' = 0
                        /\ last' = Last("mount", "ok", 0)
                        /\ UNCHANGED buffer
    /\ UNCHANGED <<disks, crashed>>

(* fs_mount *)
fs_mount(new_disk_name) ==
    /\ ~crashed
    /\ IF new_disk_name \notin DOMAIN disks
       THEN /\ last' = Last("mount", "cannot_find_disk", 0)
            /\ UNCHANGED <<superblock, buffer, current_disk, current_dir_inode>>
       ELSE LET sb == disks[new_disk_name].sb
                consistency == check_consistency(sb)
            IN  /\ superblock' = sb
                /\ IF consistency # 0
                   THEN /\ last' = Last("mount", "inconsistent", consistency)
                        /\ UNCHANGED <<buffer, current_disk, current_dir_inode>>
                   ELSE /\ current_disk' = new_disk_name
                        /\ current_dir_inode' = 0
                        /\ buffer' = 0
                        /\ last' = Last("mount", "ok", 0)
    /\ UNCHANGED <<disks, crashed>>

(* fs_create *)
\* an inode whose parent is the current directory's index even in the root
CreateInode_raw_parent(name, size, start_block) ==
    Inode(name, FlagBit + (size % FlagBit), start_block,
          (IF size = 0 THEN FlagBit ELSE 0) + current_dir_inode)

CreateInode(name, size, start_block) ==
    Inode(name, FlagBit + (size % FlagBit), start_block,
          (IF size = 0 THEN FlagBit ELSE 0)
            + (IF current_dir_inode = 0 THEN RootParent ELSE current_dir_inode))

fs_create(name, size) ==
    /\ Mounted
    /\ LET inode_idx == find_free_inode(superblock)
           start_block == find_contiguous_blocks(superblock, size)
       IN  IF inode_idx = -1
           THEN /\ last' = Last("create", "superblock_full", 0)
                /\ UNCHANGED <<superblock, disks>>
           ELSE IF size > 0 /\ start_block = -1
           THEN /\ last' = Last("create", "cannot_allocate", 0)
                /\ UNCHANGED <<superblock, disks>>
           ELSE LET marked == SetRun(superblock, start_block, size, TRUE)
                    sb == [marked EXCEPT !.inode[inode_idx] =
                                CreateInode(name, size, start_block)]
                IN  /\ superblock' = sb
                    /\ disks' = write_superblock(disks, sb)
                    /\ last' = Last("create", "ok", 0)
    /\ UNCHANGED <<buffer, current_disk, current_dir_inode, crashed>>

(* fs_delete: st is the superblock and the data blocks of the mounted     *)
(* image; the recursive call deletes inode i whatever its name.  A chain  *)
(* of parents without a cycle is at most NumInodes long: a recursion      *)
(* deeper than that never returns, and the process dies of it (overflow). *)
DeleteState(sb, data, overflow) == [sb |-> sb, data |-> data, overflow |-> overflow]

\* a clearing that drops the in-use flag and the size and keeps the rest
ClearInode_flag_only(st, target_inode) ==
    [st EXCEPT !.sb.inode[target_inode].used_size = 0]

\* memset(&superblock.inode[target_inode], 0, sizeof(Inode))
ClearInode(st, target_inode) ==
    [st EXCEPT !.sb.inode[target_inode] = ZeroInode]

\* a delete that leaves the contents of a directory alone
DeleteChildren_none(st, target_inode, i, depth) == st

RECURSIVE DeleteInode(_, _, _)
RECURSIVE DeleteChildren(_, _, _, _)
DeleteChildren(st, target_inode, i, depth) ==
    IF st.overflow \/ i >= NumInodes THEN st
    ELSE IF InUse(st.sb.inode[i]) /\ ParentOf(st.sb.inode[i]) = target_inode
         THEN DeleteChildren(DeleteInode(st, i, depth + 1), target_inode, i + 1, depth)
         ELSE DeleteChildren(st, target_inode, i + 1, depth)

DeleteInode(st, target_inode, depth) ==
    IF depth > NumInodes THEN [st EXCEPT !.overflow = TRUE]
    ELSE LET ino == st.sb.inode[target_inode]
             freed == IF IsDir(ino)
                      THEN DeleteChildren(st, target_inode, 0, depth)
                      ELSE DeleteState(
                             SetRun(st.sb, ino.start_block, SizeOf(ino), FALSE),
                             ZeroRun(st.data, ino.start_block, SizeOf(ino)),
                             FALSE)
         IN  IF freed.overflow THEN freed
             ELSE ClearInode(freed, target_inode)

fs_delete(name) ==
    /\ Mounted
    /\ LET target_inode == FindChild(superblock, name)
       IN  IF target_inode = -1
           THEN /\ last' = Last("delete", "not_exist", 0)
                /\ UNCHANGED <<superblock, disks, crashed>>
           ELSE LET st == DeleteInode(
                            DeleteState(superblock, disks[current_disk].data, FALSE),
                            target_inode, 1)
                IN  IF st.overflow
                    THEN /\ crashed' = TRUE
                         /\ disks' = [disks EXCEPT ![current_disk] =
                                          Image(st.sb, st.data)]
                         /\ last' = Last("delete", "stack_overflow", 0)
                         /\ UNCHANGED superblock
                    ELSE /\ superblock' = st.sb
                         /\ disks' = [disks EXCEPT ![current_disk] =
                                          Image(st.sb, st.data)]
                         /\ last' = Last("delete", "ok", 0)
                         /\ UNCHANGED crashed
    /\ UNCHANGED <<buffer, current_disk, current_dir_inode>>

(* fs_read and fs_write *)
fs_read(name, block_num) ==
    /\ Mounted
    /\ LET found == FindFile(superblock, name)
       IN  IF found = -1
           THEN /\ last' = Last("read", "not_exist", 0)
                /\ UNCHANGED buffer
           ELSE IF block_num < 0 \/ block_num >= SizeOf(superblock.inode[found])
           THEN /\ last' = Last("read", "no_block", 0)
                /\ UNCHANGED buffer
           ELSE /\ buffer' = ReadBlock(disks[current_disk].data,
                                 superblock.inode[found].start_block + block_num)
                /\ last' = Last("read", "ok", 0)
    /\ UNCHANGED <<superblock, current_disk, current_dir_inode, disks, crashed>>

fs_write(name, block_num) ==
    /\ Mounted
    /\ LET found == FindFile(superblock, name)
       IN  IF found = -1
           THEN /\ last' = Last("write", "not_exist", 0)
                /\ UNCHANGED disks
           ELSE IF block_num < 0 \/ block_num >= SizeOf(superblock.inode[found])
           THEN /\ last' = Last("write", "no_block", 0)
                /\ UNCHANGED disks
           ELSE /\ disks' = [disks EXCEPT ![current_disk].data =
                        WriteBlock(@, superblock.inode[found].start_block + block_num,
                                   buffer)]
                /\ last' = Last("write", "ok", 0)
    /\ UNCHANGED <<superblock, buffer, current_disk, current_dir_inode, crashed>>

(* fs_buff: no mount check in the code *)
fs_buff(buff) ==
    /\ ~crashed
    /\ buffer' = buff
    /\ last' = Last("buff", "ok", 0)
    /\ UNCHANGED <<superblock, current_disk, current_dir_inode, disks, crashed>>

(* fs_resize *)
\* variant: the in-place test always fails
CanExpand_never(sb, start_block, current_size, new_size) == FALSE

CanExpand(sb, start_block, current_size, new_size) ==
    \A i \in (start_block + current_size) .. (start_block + new_size - 1) :
        ~(i >= NumBlocks \/ get_block_bit(sb, i))

\* variant: the old blocks are not zeroed
Relocate_keeps_old(st, found, start_block, current_size, new_start, new_size) ==
    LET copied == CopyRun(st.data, start_block, new_start, 0, current_size)
        freed == SetRun(st.sb, start_block, current_size, FALSE)
        marked == SetRun(freed, new_start, new_size, TRUE)
    IN  Image([marked EXCEPT !.inode[found].start_block = new_start], copied)

\* variant: the blocks are not copied
Relocate_no_copy(st, found, start_block, current_size, new_start, new_size) ==
    LET zeroed == ZeroRun(st.data, start_block, current_size)
        freed == SetRun(st.sb, start_block, current_size, FALSE)
        marked == SetRun(freed, new_start, new_size, TRUE)
    IN  Image([marked EXCEPT !.inode[found].start_block = new_start], zeroed)

\* relocation: copy the blocks, zero the old ones, free the old run, mark
\* the new run, set the start block
Relocate(st, found, start_block, current_size, new_start, new_size) ==
    LET copied == CopyRun(st.data, start_block, new_start, 0, current_size)
        zeroed == ZeroRun(copied, start_block, current_size)
        freed == SetRun(st.sb, start_block, current_size, FALSE)
        marked == SetRun(freed, new_start, new_size, TRUE)
    IN  Image([marked EXCEPT !.inode[found].start_block = new_start], zeroed)

Shrink(st, start_block, current_size, new_size) ==
    Image(SetRun(st.sb, start_block + new_size, current_size - new_size, FALSE),
          ZeroRun(st.data, start_block + new_size, current_size - new_size))

\* variant: the size is stored without the in-use bit
SetSize_no_flag(st, found, new_size) ==
    [st EXCEPT !.sb.inode[found].used_size = new_size % FlagBit]

SetSize(st, found, new_size) ==
    [st EXCEPT !.sb.inode[found].used_size = FlagBit + (new_size % FlagBit)]

fs_resize(name, new_size) ==
    /\ Mounted
    /\ LET found == FindFile(superblock, name)
       IN  IF found = -1
           THEN /\ last' = Last("resize", "not_exist", 0)
                /\ UNCHANGED <<superblock, disks>>
           ELSE
           LET current_size == SizeOf(superblock.inode[found])
               start_block == superblock.inode[found].start_block
               new_start == find_contiguous_blocks(superblock, new_size)
               st == Image(superblock, disks[current_disk].data)
               grow == new_size > current_size
               in_place == CanExpand(superblock, start_block, current_size, new_size)
           IN  IF grow /\ ~in_place /\ new_start = -1
               THEN /\ last' = Last("resize", "cannot_expand", 0)
                    /\ UNCHANGED <<superblock, disks>>
               ELSE LET moved ==
                          IF grow /\ in_place
                          THEN Image(SetRun(superblock, start_block + current_size,
                                            new_size - current_size, TRUE), st.data)
                          ELSE IF grow
                          THEN Relocate(st, found, start_block, current_size,
                                        new_start, new_size)
                          ELSE IF new_size < current_size
                          THEN Shrink(st, start_block, current_size, new_size)
                          ELSE st
                        done == SetSize(moved, found, new_size)
                    IN  /\ superblock' = done.sb
                        /\ disks' = [disks EXCEPT ![current_disk] = done]
                        /\ last' = Last("resize", "ok", 0)
    /\ UNCHANGED <<buffer, current_disk, current_dir_inode, crashed>>

(* fs_defrag *)
FileInfo(sb, i) ==
    [inode_idx |-> i, start_block |-> sb.inode[i].start_block,
     size |-> SizeOf(sb.inode[i])]

\* the in-use files in inode order
RECURSIVE CollectFiles(_, _)
CollectFiles(sb, i) ==
    IF i >= NumInodes THEN <<>>
    ELSE (IF IsFile(sb.inode[i]) THEN <<FileInfo(sb, i)>> ELSE <<>>)
            \o CollectFiles(sb, i + 1)

\* the bubble sort by start block; j and the pass bound are 1-based here
RECURSIVE BubblePass(_, _, _)
BubblePass(files, j, bound) ==
    IF j > bound THEN files
    ELSE BubblePass(
            IF files[j].start_block > files[j + 1].start_block
            THEN [files EXCEPT ![j] = files[j + 1], ![j + 1] = files[j]]
            ELSE files,
            j + 1, bound)

\* variant: the files stay in inode order
BubbleSort_none(files, i) == files

RECURSIVE BubbleSort(_, _)
BubbleSort(files, i) ==
    IF i >= Len(files) - 1 THEN files
    ELSE BubbleSort(BubblePass(files, 1, Len(files) - i - 1), i + 1)

\* the bitmap loop of a move: for each j, clear old+j and then set new+j
RECURSIVE MoveBits(_, _, _, _, _)
MoveBits(sb, old_start, new_start, j, size) ==
    IF j >= size THEN sb
    ELSE MoveBits(set_block_bit(set_block_bit(sb, old_start + j, FALSE),
                                new_start + j, TRUE),
                  old_start, new_start, j + 1, size)

MoveFile(st, file, next_free) ==
    LET copied == CopyRun(st.data, file.start_block, next_free, 0, file.size)
        bits == MoveBits(st.sb, file.start_block, next_free, 0, file.size)
        zeroed == ZeroRun(copied, file.start_block, file.size)
    IN  Image([bits EXCEPT !.inode[file.inode_idx].start_block = next_free], zeroed)

RECURSIVE MoveFiles(_, _, _, _)
MoveFiles(st, files, i, next_free) ==
    IF i > Len(files) THEN st
    ELSE MoveFiles(IF files[i].start_block # next_free
                   THEN MoveFile(st, files[i], next_free)
                   ELSE st,
                   files, i + 1, next_free + files[i].size)

\* variant: the files are placed in descending order of start block
Defragmented_descending(st) ==
    LET files == BubbleSort(CollectFiles(st.sb, 0), 0)
    IN  MoveFiles(st, [k \in 1 .. Len(files) |-> files[Len(files) + 1 - k]], 1, 1)

Defragmented(st) ==
    MoveFiles(st, BubbleSort(CollectFiles(st.sb, 0), 0), 1, 1)

fs_defrag ==
    /\ Mounted
    /\ LET st == Defragmented(Image(superblock, disks[current_disk].data))
       IN  /\ superblock' = st.sb
           /\ disks' = [disks EXCEPT ![current_disk] = st]
           /\ last' = Last("defrag", "ok", 0)
    /\ UNCHANGED <<buffer, current_disk, current_dir_inode, crashed>>

(* fs_cd *)
fs_cd(name) ==
    /\ Mounted
    /\ IF name = NameDot
       THEN /\ UNCHANGED current_dir_inode
            /\ last' = Last("cd", "ok", 0)
       ELSE IF name = NameDotDot
       THEN /\ current_dir_inode' =
                IF current_dir_inode # 0
                   /\ ParentOf(superblock.inode[current_dir_inode]) # RootParent
                THEN ParentOf(superblock.inode[current_dir_inode])
                ELSE current_dir_inode
            /\ last' = Last("cd", "ok", 0)
       ELSE LET found == FindDir(superblock, name)
            IN  IF found = -1
                THEN /\ UNCHANGED current_dir_inode
                     /\ last' = Last("cd", "dir_not_exist", 0)
                ELSE /\ current_dir_inode' = found
                     /\ last' = Last("cd", "ok", 0)
    /\ UNCHANGED <<superblock, buffer, current_disk, disks, crashed>>

(* fs_ls: the lines printed are kept as the code of the last command *)
LsLine(name, count, kb) == [name |-> name, count |-> count, kb |-> kb]

\* the number of in-use inodes whose parent field is parent_idx
ls_items(sb, parent_idx) ==
    Cardinality({i \in Inodes : InUse(sb.inode[i]) /\ ParentOf(sb.inode[i]) = parent_idx})

ls_entry(sb, i) ==
    IF IsDir(sb.inode[i])
    THEN LsLine(sb.inode[i].name, ls_items(sb, i) + 2, FALSE)
    ELSE LsLine(sb.inode[i].name, SizeOf(sb.inode[i]), TRUE)

\* the entries with parent current_dir_inode, in inode order
RECURSIVE ls_entries(_, _)
ls_entries(sb, i) ==
    IF i >= NumInodes THEN <<>>
    ELSE (IF InUse(sb.inode[i]) /\ ParentOf(sb.inode[i]) = current_dir_inode
          THEN <<ls_entry(sb, i)>> ELSE <<>>) \o ls_entries(sb, i + 1)

ls_output(sb) ==
    LET current_items == ls_items(sb, current_dir_inode)
        parent_items ==
            IF current_dir_inode = 0 THEN current_items
            ELSE ls_items(sb, ParentOf(sb.inode[current_dir_inode]))
    IN  <<LsLine(NameDot, current_items + 2, FALSE),
          LsLine(NameDotDot, parent_items + 2, FALSE)>> \o ls_entries(sb, 0)

fs_ls ==
    /\ Mounted
    /\ last' = Last("ls", "ok", ls_output(superblock))
    /\ UNCHANGED <<superblock, buffer, current_disk, current_dir_inode, disks,
                   crashed>>

(***************************************************************************)
(* The commands of the driver (main), with the ranges it accepts: a size   *)
(* in 0..127, a block number in 0..126, a new size in 1..127.              *)
(***************************************************************************)
NextCommand == steps < MaxSteps /\ steps' = steps + 1

Mount == NextCommand /\ \E d \in Paths : args' = MountArgs(d) /\ fs_mount(d)

Create ==
    /\ NextCommand
    /\ \E n \in DriverNames, size \in 0 .. LastBlock :
          /\ args' = Args(n, size)
          /\ (fs_create(n, size) \/ NotMounted("create"))

Delete ==
    /\ NextCommand
    /\ \E n \in DriverNames :
          /\ args' = Args(n, -1)
          /\ (fs_delete(n) \/ NotMounted("delete"))

Read ==
    /\ NextCommand
    /\ \E n \in DriverNames, b \in 0 .. (LastBlock - 1) :
          /\ args' = Args(n, b)
          /\ (fs_read(n, b) \/ NotMounted("read"))

Write ==
    /\ NextCommand
    /\ \E n \in DriverNames, b \in 0 .. (LastBlock - 1) :
          /\ args' = Args(n, b)
          /\ (fs_write(n, b) \/ NotMounted("write"))

Buff == NextCommand /\ \E c \in Contents : args' = Args(NameZero, c) /\ fs_buff(c)

Ls ==
    /\ NextCommand
    /\ args' = Args(NameZero, 0)
    /\ (fs_ls \/ NotMounted("ls"))

Resize ==
    /\ NextCommand
    /\ \E n \in DriverNames, new_size \in 1 .. LastBlock :
          /\ args' = Args(n, new_size)
          /\ (fs_resize(n, new_size) \/ NotMounted("resize"))

Defrag ==
    /\ NextCommand
    /\ args' = Args(NameZero, 0)
    /\ (fs_defrag \/ NotMounted("defrag"))

Cd ==
    /\ NextCommand
    /\ \E n \in CdNames :
          /\ args' = Args(n, 0)
          /\ (fs_cd(n) \/ NotMounted("cd"))

Init ==
    /\ superblock = ZeroSuperblock
    /\ buffer = 0
    /\ current_disk = NULL
    /\ current_dir_inode = 0
    /\ disks = InitialDisks
    /\ last = Last("none", "ok", 0)
    /\ crashed = FALSE
    /\ steps = 0
    /\ args = Args(NameZero, 0)

Next ==
    \/ Mount
    \/ Create
    \/ Delete
    \/ Read
    \/ Write
    \/ Buff
    \/ Ls
    \/ Resize
    \/ Defrag
    \/ Cd

Spec == Init /\ [][Next]_vars

(***************************************************************************)
(* The operations on a mounted consistent image: the state after a mount   *)
(* of one of the consistent images, and every command but mount.           *)
(***************************************************************************)
ConsistentDisks == {"clean", "tree", "packed"}

InitOps ==
    /\ disks = InitialDisks
    /\ \E d \in ConsistentDisks :
          /\ superblock = disks[d].sb
          /\ current_disk = d
          /\ args = MountArgs(d)
    /\ current_dir_inode = 0
    /\ buffer = 0
    /\ last = Last("mount", "ok", 0)
    /\ crashed = FALSE
    /\ steps = 1

NextOps ==
    \/ Create
    \/ Delete
    \/ Read
    \/ Write
    \/ Buff
    \/ Ls
    \/ Resize
    \/ Defrag
    \/ Cd

SpecOps == InitOps /\ [][NextOps]_vars

(***************************************************************************)
(* The disk writes of resize and defrag one at a time: a command that      *)
(* writes keeps the writes it still has to do, in the order of its code,   *)
(* as the code of the last command, with the diagnostic "writing"; each    *)
(* step does the first of them.  A write is a block number and the content *)
(* written; block 0 is the superblock, and the superblock in memory is     *)
(* shown as of that write.  The data file is closed, hence flushed, before *)
(* write_superblock opens the image again.                                 *)
(***************************************************************************)
DiskWrite(block, value) == [block |-> block, value |-> value]

\* the writes of a copy loop: block src+i is read and written to dst+i
RECURSIVE CopyWrites(_, _, _, _, _)
CopyWrites(data, src, dst, i0, n) ==
    IF i0 >= n THEN <<>>
    ELSE <<DiskWrite(dst + i0, ReadBlock(data, src + i0))>>
            \o CopyWrites(WriteBlock(data, dst + i0, ReadBlock(data, src + i0)),
                          src, dst, i0 + 1, n)

\* the writes of a zeroing loop
RECURSIVE ZeroWrites(_, _)
ZeroWrites(start, size) ==
    IF size <= 0 THEN <<>>
    ELSE <<DiskWrite(start, 0)>> \o ZeroWrites(start + 1, size - 1)

\* variant: the superblock is written before the data blocks
SuperblockFirst(data_writes, sb) == <<DiskWrite(0, sb)>> \o data_writes

\* write_superblock at the end of the operation
SuperblockLast(data_writes, sb) == data_writes \o <<DiskWrite(0, sb)>>

\* the outcome of fs_resize for the file found
ResizeDone(found, new_size) ==
    LET current_size == SizeOf(superblock.inode[found])
        start_block == superblock.inode[found].start_block
        st == Image(superblock, disks[current_disk].data)
        moved == IF new_size > current_size
                 THEN IF CanExpand(superblock, start_block, current_size, new_size)
                      THEN Image(SetRun(superblock, start_block + current_size,
                                        new_size - current_size, TRUE), st.data)
                      ELSE Relocate(st, found, start_block, current_size,
                                    find_contiguous_blocks(superblock, new_size),
                                    new_size)
                 ELSE IF new_size < current_size
                 THEN Shrink(st, start_block, current_size, new_size)
                 ELSE st
    IN  SetSize(moved, found, new_size)

\* the diagnostic of fs_resize and the writes it does, in order
resize_writes(name, new_size) ==
    LET found == FindFile(superblock, name)
    IN  IF found = -1 THEN [diag |-> "not_exist", writes |-> <<>>]
        ELSE
        LET current_size == SizeOf(superblock.inode[found])
            start_block == superblock.inode[found].start_block
            new_start == find_contiguous_blocks(superblock, new_size)
            grow == new_size > current_size
            in_place == CanExpand(superblock, start_block, current_size, new_size)
            data_writes ==
                IF grow /\ in_place THEN <<>>
                ELSE IF grow
                THEN CopyWrites(disks[current_disk].data, start_block, new_start,
                                0, current_size)
                        \o ZeroWrites(start_block, current_size)
                ELSE ZeroWrites(start_block + new_size, current_size - new_size)
        IN  IF grow /\ ~in_place /\ new_start = -1
            THEN [diag |-> "cannot_expand", writes |-> <<>>]
            ELSE [diag |-> "ok",
                  writes |-> SuperblockLast(data_writes,
                                            ResizeDone(found, new_size).sb)]

\* the writes of the move loop of fs_defrag
RECURSIVE MoveWrites(_, _, _, _)
MoveWrites(data, files, i, next_free) ==
    IF i > Len(files) THEN <<>>
    ELSE IF files[i].start_block # next_free
    THEN CopyWrites(data, files[i].start_block, next_free, 0, files[i].size)
            \o ZeroWrites(files[i].start_block, files[i].size)
            \o MoveWrites(ZeroRun(CopyRun(data, files[i].start_block, next_free,
                                          0, files[i].size),
                                  files[i].start_block, files[i].size),
                          files, i + 1, next_free + files[i].size)
    ELSE MoveWrites(data, files, i + 1, next_free + files[i].size)

defrag_writes ==
    LET st == Image(superblock, disks[current_disk].data)
    IN  SuperblockLast(MoveWrites(st.data, BubbleSort(CollectFiles(st.sb, 0), 0), 1, 1),
                       Defragmented(st).sb)

Writing == last.diag = "writing"

StartResize ==
    /\ NextCommand
    /\ Mounted
    /\ ~Writing
    /\ \E n \in DriverNames, new_size \in 1 .. LastBlock :
          /\ args' = Args(n, new_size)
          /\ LET r == resize_writes(n, new_size)
             IN  last' = IF r.diag = "ok" THEN Last("resize", "writing", r.writes)
                         ELSE Last("resize", r.diag, 0)
    /\ UNCHANGED <<superblock, buffer, current_disk, current_dir_inode, disks,
                   crashed>>

StartDefrag ==
    /\ NextCommand
    /\ Mounted
    /\ ~Writing
    /\ args' = Args(NameZero, 0)
    /\ last' = Last("defrag", "writing", defrag_writes)
    /\ UNCHANGED <<superblock, buffer, current_disk, current_dir_inode, disks,
                   crashed>>

WriteStep ==
    /\ Writing
    /\ LET write == Head(last.code)
           rest == Tail(last.code)
       IN  /\ IF write.block = 0
              THEN /\ disks' = [disks EXCEPT ![current_disk].sb = write.value]
                   /\ superblock' = write.value
              ELSE /\ disks' = [disks EXCEPT ![current_disk].data =
                                   WriteBlock(@, write.block, write.value)]
                   /\ UNCHANGED superblock
           /\ last' = IF rest = <<>> THEN Last(last.op, "ok", 0)
                      ELSE Last(last.op, "writing", rest)
    /\ UNCHANGED <<buffer, current_disk, current_dir_inode, crashed, steps, args>>

NextWrites == StartResize \/ StartDefrag \/ WriteStep

SpecWrites == InitOps /\ [][NextWrites]_vars

(***************************************************************************)
(* The operations on a mounted image that the verifier accepts although a  *)
(* directory is its own parent, or although two files share a block: the   *)
(* state after the mount of such an image, and every command but mount.    *)
(***************************************************************************)
\* inode 0 is a directory a whose parent field is 0, itself
LoopImage ==
    Image([ZeroSuperblock EXCEPT !.free_block_list[0] = 1,
                                 !.inode[0] = Inode(NameA, FlagBit, 0, FlagBit)],
          ZeroData)

\* the files a, blocks 1 and 2, and b, blocks 2 and 3, of the root share
\* block 2; bits 0 to 3 are set
OverlapImage ==
    Image([ZeroSuperblock EXCEPT
              !.free_block_list = [b \in Blocks |-> IF b <= 3 THEN 1 ELSE 0],
              !.inode[0] = Inode(NameA, FlagBit + 2, 1, RootParent),
              !.inode[1] = Inode(NameB, FlagBit + 2, 2, RootParent)],
          [b \in DataBlocks |-> IF b <= 3 THEN 1 ELSE 0])

AcceptedDisks ==
    [d \in {"loop", "overlap"} |-> IF d = "loop" THEN LoopImage ELSE OverlapImage]

InitAccepted ==
    /\ \E d \in DOMAIN AcceptedDisks :
          /\ check_consistency(AcceptedDisks[d].sb) = 0
          /\ disks = [e \in {d} |-> AcceptedDisks[e]]
          /\ superblock = AcceptedDisks[d].sb
          /\ current_disk = d
          /\ args = MountArgs(d)
    /\ current_dir_inode = 0
    /\ buffer = 0
    /\ last = Last("mount", "ok", 0)
    /\ crashed = FALSE
    /\ steps = 1

NextAccepted == NextOps

SpecAccepted == InitAccepted /\ [][NextAccepted]_vars

(***************************************************************************)
(* The consistency verifier on arbitrary images: the only image on the     *)
(* host, at the path "bad", has any superblock of ProbeSuperblocks, and    *)
(* the last command of the command file is a mount.  The superblocks have  *)
(* inode 0 either free or                                                  *)
(* a directory of the root, any two inodes of ProbeInodes after it, the    *)
(* other inodes zero, and any bitmap over blocks 0, 1 and 2.               *)
(***************************************************************************)
ProbeFreeInodes ==
    {Inode(n, u, s, p) : n \in {NameZero, NameA}, u \in {0, 1},
                         s \in {0, 1}, p \in {0, 1}}

ProbeFileInodes ==
    {Inode(n, FlagBit + u, s, p) : n \in {NameA, NameB}, u \in {1, 2},
                                   s \in {0, 1, LastBlock},
                                   p \in {RootParent, 0, ReservedParent}}

ProbeDirInodes ==
    {Inode(n, FlagBit + u, s, FlagBit + p) : n \in {NameA, NameB}, u \in {0, 1},
                                             s \in {0, 1}, p \in {RootParent, 0}}

ProbeInodes == ProbeFreeInodes \cup ProbeFileInodes \cup ProbeDirInodes

ProbeSuperblocks ==
    {[free_block_list |-> [b \in Blocks |-> IF b \in used THEN 1 ELSE 0],
      inode |-> [i \in Inodes |->
         CASE i = 0 -> first
           [] i = 1 -> second
           [] i = 2 -> third
           [] OTHER -> ZeroInode]] :
        used \in SUBSET {0, 1, 2},
        first \in {ZeroInode, Inode(NameA, FlagBit, 0, FlagBit + RootParent)},
        second \in ProbeInodes,
        third \in ProbeInodes}

InitCheck ==
    /\ superblock = ZeroSuperblock
    /\ buffer = 0
    /\ current_disk = NULL
    /\ current_dir_inode = 0
    /\ \E sb \in ProbeSuperblocks : disks = [d \in {"bad"} |-> Image(sb, ZeroData)]
    /\ last = Last("none", "ok", 0)
    /\ crashed = FALSE
    /\ steps = MaxSteps - 1
    /\ args = Args(NameZero, 0)

NextCheck == Mount

SpecCheck == InitCheck /\ [][NextCheck]_vars

(***************************************************************************)
(* The name comparison on arbitrary names: the image at "bad" has the      *)
(* directory a in the root at inode 0 and, inside it, two directories      *)
(* whose names are any two of NameSamples, five bytes each with zero       *)
(* bytes and spaces anywhere; the last command is a mount, whose check 5   *)
(* compares the two names.                                                 *)
(***************************************************************************)
\* names that start with the byte a
NameSamples ==
    {<<97, x, y, 0, z>> : x \in {0, 32, 98}, y \in {0, 98}, z \in {0, 32}}

NameProbeSuperblocks ==
    {[ZeroSuperblock EXCEPT
         !.free_block_list[0] = 1,
         !.inode[0] = Inode(NameA, FlagBit, 0, FlagBit + RootParent),
         !.inode[1] = Inode(n1, FlagBit, 0, FlagBit),
         !.inode[2] = Inode(n2, FlagBit, 0, FlagBit)] :
        n1 \in NameSamples, n2 \in NameSamples}

InitNames ==
    /\ superblock = ZeroSuperblock
    /\ buffer = 0
    /\ current_disk = NULL
    /\ current_dir_inode = 0
    /\ \E sb \in NameProbeSuperblocks : disks = [d \in {"bad"} |-> Image(sb, ZeroData)]
    /\ last = Last("none", "ok", 0)
    /\ crashed = FALSE
    /\ steps = MaxSteps - 1
    /\ args = Args(NameZero, 0)

NextNames == Mount

SpecNames == InitNames /\ [][NextNames]_vars

(***************************************************************************)
(* The create of the variant src/hf.c, a program of its own with the same  *)
(* superblock.  It keeps every entry in the root (dir_parent 127), its     *)
(* verifier wants dir_parent = 127 in a free inode, and it fills the inode *)
(* before it looks for blocks, undoing the fill when there are none.  Its  *)
(* driver reads the name with "%s" and the size with "%d", unchecked; the  *)
(* names here are shorter than five bytes, so that strcpy stays inside the *)
(* name field.                                                             *)
(***************************************************************************)
NameAB == <<97, 98, 0, 0, 0>>

HfNames == {NameA, NameB, NameAB}

HfFreeInode == Inode(NameZero, 0, 0, RootParent)

\* an empty image that the verifier of src/hf.c accepts
HfCleanImage ==
    Image([free_block_list |-> [b \in Blocks |-> IF b = 0 THEN 1 ELSE 0],
           inode |-> [i \in Inodes |-> HfFreeInode]], ZeroData)

\* strcpy(dest, src): the bytes of src up to and with its zero byte
HfStrCpy(dest, src) ==
    LET n == Len(CString(src, 1))
    IN  [k \in 1 .. 5 |-> IF k <= n THEN src[k] ELSE IF k = n + 1 THEN 0 ELSE dest[k]]

\* strcpy(dest, ""): one zero byte
HfStrClear(dest) == [dest EXCEPT ![1] = 0]

hf_find_free_blocks(sb, size) ==
    LET cand == {s \in 1 .. (LastBlock - size + 1) : RunFree(sb, s, size)}
    IN  IF cand = {} THEN -1
        ELSE CHOOSE s \in cand : \A t \in cand : s <= t

hf_fs_create(name, size) ==
    /\ Mounted
    /\ LET n == Len(CString(name, 1))
           taken == \E i \in Inodes :
                       /\ InUse(superblock.inode[i])
                       /\ superblock.inode[i].dir_parent = RootParent
                       /\ CString(superblock.inode[i].name, 1) = CString(name, 1)
           i == find_free_inode(superblock)
       IN  IF n = 0 \/ name[1] = 32 \/ name[n] = 32
           THEN /\ last' = Last("create", "invalid_name", 0)
                /\ UNCHANGED <<superblock, disks>>
           ELSE IF taken
           THEN /\ last' = Last("create", "already_exists", 0)
                /\ UNCHANGED <<superblock, disks>>
           ELSE IF i = -1
           THEN /\ last' = Last("create", "ok", 0)
                /\ disks' = write_superblock(disks, superblock)
                /\ UNCHANGED superblock
           ELSE LET filled == Inode(HfStrCpy(superblock.inode[i].name, name),
                                    FlagBit + (size % FlagBit), 0, RootParent)
                    start_block == hf_find_free_blocks(superblock, size)
                IN  IF size > 0 /\ start_block = -1
                    THEN /\ superblock' =
                              [superblock EXCEPT !.inode[i] =
                                   Inode(HfStrClear(filled.name), 0, 0, RootParent)]
                         /\ last' = Last("create", "cannot_allocate", 0)
                         /\ UNCHANGED disks
                    ELSE LET sb == IF size > 0
                                   THEN [SetRun(superblock, start_block, size, TRUE)
                                            EXCEPT !.inode[i] =
                                               [filled EXCEPT !.start_block = start_block]]
                                   ELSE [superblock EXCEPT !.inode[i] = filled]
                         IN  /\ superblock' = sb
                             /\ disks' = write_superblock(disks, sb)
                             /\ last' = Last("create", "ok", 0)
    /\ UNCHANGED <<buffer, current_disk, current_dir_inode, crashed>>

HfCreate ==
    /\ NextCommand
    /\ \E n \in HfNames, size \in 0 .. NumBlocks :
          /\ args' = Args(n, size)
          /\ hf_fs_create(n, size)

InitHf ==
    /\ disks = [d \in {"hf"} |-> HfCleanImage]
    /\ superblock = HfCleanImage.sb
    /\ current_disk = "hf"
    /\ current_dir_inode = 0
    /\ buffer = 0
    /\ last = Last("mount", "ok", 0)
    /\ crashed = FALSE
    /\ steps = 1
    /\ args = MountArgs("hf")

NextHf == HfCreate

SpecHf == InitHf /\ [][NextHf]_vars

(***************************************************************************)
(* The resize of the variant src/ul.c, a program of its own with the same  *)
(* superblock.  Its current directory is 127 after a mount, and its mount  *)
(* wants every byte of the bitmap to be the complement of the blocks that  *)
(* the files hold (char is signed in the build: with 128 blocks, block 7   *)
(* of every byte has to be unused), so that a clear bit marks a block of   *)
(* a file in a mounted image, while its resize takes a clear bit for a     *)
(* free block.  It opens the image for reading only: its writes to the     *)
(* image fail, and a resize changes the superblock in memory and the       *)
(* buffer, which it uses to copy and to zero blocks.  Its driver passes    *)
(* atoi of the second word as the new size, unchecked; the sizes here are  *)
(* 0 to the last block.                                                    *)
(***************************************************************************)
UlFileA == Inode(NameA, FlagBit + 1, 1, RootParent)

UlFileB == Inode(NameB, FlagBit + 1, 3, RootParent)

\* the blocks that the in-use inodes hold, as the mount computes them
ul_block_usage(sb, b) ==
    \E i \in Inodes :
        /\ InUse(sb.inode[i])
        /\ b >= sb.inode[i].start_block
        /\ b < sb.inode[i].start_block + SizeOf(sb.inode[i])

\* an image with a file a at block 1 and a file b at block 3, of one block
\* each, both in the root, and the bitmap that the mount accepts
UlImage ==
    LET inodes == [ZeroSuperblock EXCEPT !.inode[0] = UlFileA, !.inode[1] = UlFileB]
    IN  Image([inodes EXCEPT !.free_block_list =
                  [b \in Blocks |-> IF ul_block_usage(inodes, b) THEN 0 ELSE 1]],
              [b \in DataBlocks |-> IF b = 1 THEN 1 ELSE IF b = 3 THEN MaxData ELSE 0])

\* the six checks of the mount all pass
ul_mount_accepts(sb) ==
    /\ \A i \in Inodes :
          IF ~InUse(sb.inode[i])
          THEN sb.inode[i] = ZeroInode
          ELSE /\ ~IsDir(sb.inode[i]) =>
                     ~(\/ sb.inode[i].start_block < 1
                       \/ sb.inode[i].start_block > LastBlock
                       \/ sb.inode[i].start_block + SizeOf(sb.inode[i]) - 1 > LastBlock)
               /\ IsDir(sb.inode[i]) =>
                     (sb.inode[i].start_block = 0 /\ SizeOf(sb.inode[i]) = 0)
               /\ ParentOf(sb.inode[i]) # RootParent =>
                     /\ ParentOf(sb.inode[i]) \in Inodes
                     /\ InUse(sb.inode[ParentOf(sb.inode[i])])
                     /\ IsDir(sb.inode[ParentOf(sb.inode[i])])
    /\ \A i, j \in Inodes :
          (i < j /\ InUse(sb.inode[i]) /\ InUse(sb.inode[j])) =>
              ~(/\ CString(sb.inode[i].name, 1) = CString(sb.inode[j].name, 1)
                /\ ParentOf(sb.inode[i]) = ParentOf(sb.inode[j]))
    /\ \A i, j \in Inodes :
          (i < j /\ InUse(sb.inode[i]) /\ InUse(sb.inode[j])) =>
              \A b \in Blocks :
                 ~(/\ b >= sb.inode[i].start_block
                   /\ b < sb.inode[i].start_block + SizeOf(sb.inode[i])
                   /\ b >= sb.inode[j].start_block
                   /\ b < sb.inode[j].start_block + SizeOf(sb.inode[j]))
    /\ \A i \in Inodes :
          InUse(sb.inode[i]) =>
              \A b \in sb.inode[i].start_block ..
                       (sb.inode[i].start_block + SizeOf(sb.inode[i]) - 1) :
                 b >= 1 /\ b <= LastBlock
    /\ \A b \in Blocks :
          sb.free_block_list[b] = IF ul_block_usage(sb, b) THEN 0 ELSE 1

\* the lookup of resize: an in-use inode that is not a directory, whose
\* dir_parent byte is the current directory and whose name matches
ul_find_file(sb, name) ==
    FirstInode({i \in Inodes :
                  /\ InUse(sb.inode[i])
                  /\ ~IsDir(sb.inode[i])
                  /\ sb.inode[i].dir_parent = current_dir_inode
                  /\ CString(sb.inode[i].name, 1) = CString(name, 1)})

\* blocks [t, t+n) are on the disk and their bits are clear
ul_clear_run(sb, t, n) ==
    /\ t + n <= NumBlocks
    /\ \A b \in t .. (t + n - 1) : sb.free_block_list[b] = 0

\* the scan for room "after the file": a run of n clear bits anywhere from
\* block first on
ul_room_after(sb, first, n) ==
    \E t \in first .. LastBlock : ul_clear_run(sb, t, n)

\* the scan for a new place: the start of the first run of n clear bits
\* from block 1 on, -1 for none
ul_new_start(sb, n) ==
    IF \E t \in 1 .. LastBlock : ul_clear_run(sb, t, n)
    THEN CHOOSE t \in 1 .. LastBlock :
            /\ ul_clear_run(sb, t, n)
            /\ \A u \in 1 .. (t - 1) : ~ul_clear_run(sb, u, n)
    ELSE -1

\* the bits of [start, start+size) set to value
ul_set_bits(sb, start, size, value) ==
    [sb EXCEPT !.free_block_list =
        [b \in Blocks |-> IF b >= start /\ b < start + size THEN value ELSE @[b]]]

ul_set_size(sb, inode_index, new_size) ==
    [sb EXCEPT !.inode[inode_index].used_size =
        FlagBit * ((@ \div FlagBit) % 2) + new_size]

ul_fs_resize(name, new_size) ==
    /\ Mounted
    /\ LET inode_index == ul_find_file(superblock, name)
       IN  IF inode_index = -1
           THEN /\ last' = Last("resize", "not_exist", 0)
                /\ UNCHANGED <<superblock, buffer>>
           ELSE
           LET current_size == SizeOf(superblock.inode[inode_index])
               start_block == superblock.inode[inode_index].start_block
               new_start_block == ul_new_start(superblock, new_size)
           IN  IF new_size > current_size
               THEN IF ul_room_after(superblock, start_block + current_size,
                                     new_size - current_size)
                    THEN /\ superblock' =
                              ul_set_size(ul_set_bits(superblock,
                                                      start_block + current_size,
                                                      new_size - current_size, 1),
                                          inode_index, new_size)
                         /\ last' = Last("resize", "ok", 0)
                         /\ UNCHANGED buffer
                    ELSE IF new_start_block # -1
                    THEN /\ superblock' =
                              ul_set_size(
                                 [ul_set_bits(ul_set_bits(superblock, start_block,
                                                          current_size, 0),
                                              new_start_block, new_size, 1)
                                     EXCEPT !.inode[inode_index].start_block =
                                               new_start_block],
                                 inode_index, new_size)
                         /\ buffer' = 0
                         /\ last' = Last("resize", "ok", 0)
                    ELSE /\ last' = Last("resize", "cannot_expand", 0)
                         /\ UNCHANGED <<superblock, buffer>>
               ELSE IF new_size < current_size
               THEN /\ superblock' =
                         ul_set_size(ul_set_bits(superblock, start_block + new_size,
                                                 current_size - new_size, 0),
                                     inode_index, new_size)
                    /\ buffer' = 0
                    /\ last' = Last("resize", "ok", 0)
               ELSE /\ last' = Last("resize", "ok", 0)
                    /\ UNCHANGED <<superblock, buffer>>
    /\ UNCHANGED <<current_disk, current_dir_inode, disks, crashed>>

UlResize ==
    /\ NextCommand
    /\ \E n \in HfNames, new_size \in 0 .. LastBlock :
          /\ args' = Args(n, new_size)
          /\ ul_fs_resize(n, new_size)

\* the state after the mount of the image at "ul"
InitUl ==
    /\ ul_mount_accepts(UlImage.sb)
    /\ disks = [d \in {"ul"} |-> UlImage]
    /\ superblock = UlImage.sb
    /\ current_disk = "ul"
    /\ current_dir_inode = RootParent
    /\ buffer = 0
    /\ last = Last("mount", "ok", 0)
    /\ crashed = FALSE
    /\ steps = 1
    /\ args = MountArgs("ul")

NextUl == UlResize

SpecUl == InitUl /\ [][NextUl]_vars

(***************************************************************************)
(* Properties.                                                             *)
(***************************************************************************)
Succeeded(op) == last.op = op /\ last.diag = "ok"

\* the in-use files whose run [start, start+size) holds block b
Covering(sb, b) ==
    {i \in Inodes :
        /\ IsFile(sb.inode[i])
        /\ sb.inode[i].start_block <= b
        /\ b < sb.inode[i].start_block + SizeOf(sb.inode[i])}

MountedData == disks[current_disk].data

\* C1: on a mounted consistent image, after any sequence of create, delete,
\* resize, defrag, read, write and cd, a data block is marked used in the
\* bitmap iff exactly one in-use file covers it, no block is covered by two
\* files, and block 0 is marked used.
C1_BitmapMatchesFiles ==
    /\ get_block_bit(superblock, 0)
    /\ \A b \in DataBlocks :
          /\ Cardinality(Covering(superblock, b)) <= 1
          /\ get_block_bit(superblock, b) <=> Cardinality(Covering(superblock, b)) = 1

C1_Witness ==
    /\ Succeeded("resize")
    /\ Cardinality({i \in Inodes : IsFile(superblock.inode[i])}) >= 2
    /\ \E b \in DataBlocks : ~get_block_bit(superblock, b)

\* C2: two distinct in-use inodes with the same parent value (the root
\* parent 127 included) have different 5-byte names.
C2_SiblingNamesDiffer ==
    \A i, j \in Inodes :
        (/\ i # j
         /\ InUse(superblock.inode[i]) /\ InUse(superblock.inode[j])
         /\ ParentOf(superblock.inode[i]) = ParentOf(superblock.inode[j]))
        => superblock.inode[i].name # superblock.inode[j].name

\* C3: after any sequence of operations on a mounted consistent image the
\* image on disk passes the six checks of the consistency verifier, so that
\* mounting it again succeeds.
C3_RemountSucceeds ==
    Mounted => check_consistency(disks[current_disk].sb) = 0

\* C4: a mount that fails while a volume is mounted leaves the in-memory
\* superblock, the current directory, the buffer and the mounted image's
\* identity as they were.
C4_FailedMountKeepsState ==
    [][(Mounted /\ last'.op = "mount" /\ last'.diag # "ok")
        => UNCHANGED <<superblock, buffer, current_disk, current_dir_inode>>]_vars

\* C5: a successful defrag preserves every file's data: block new_start+k
\* holds afterwards what block old_start+k held before, for every in-use
\* file and every offset k below its size.
C5_DefragKeepsData ==
    [][(last'.op = "defrag" /\ last'.diag = "ok")
        => \A i \in Inodes :
              IsFile(superblock.inode[i]) =>
                 \A k \in 0 .. (SizeOf(superblock.inode[i]) - 1) :
                    disks'[current_disk].data[superblock'.inode[i].start_block + k]
                      = MountedData[superblock.inode[i].start_block + k]]_vars

\* C6: every in-use file inode has 1 <= start_block and
\* start_block + size <= the number of blocks.
C6_FileExtentsInRange ==
    \A i \in Inodes :
        IsFile(superblock.inode[i]) =>
            /\ 1 <= superblock.inode[i].start_block
            /\ superblock.inode[i].start_block + SizeOf(superblock.inode[i])
                  <= NumBlocks

C6_Witness ==
    /\ Succeeded("create") \/ Succeeded("resize")
    /\ \E i \in Inodes :
          /\ IsFile(superblock.inode[i])
          /\ superblock.inode[i].start_block + SizeOf(superblock.inode[i])
                = NumBlocks

\* C7: the parent of every in-use inode is 127 or the index of an in-use
\* directory inode, and is never 126.
C7_ParentsValid ==
    \A i \in Inodes :
        InUse(superblock.inode[i]) =>
            LET parent == ParentOf(superblock.inode[i])
            IN  /\ parent # ReservedParent
                /\ \/ parent = RootParent
                   \/ /\ parent \in Inodes
                      /\ InUse(superblock.inode[parent])
                      /\ IsDir(superblock.inode[parent])

\* directory b of the tree image has been deleted with the file in it
C7_Witness ==
    /\ Succeeded("delete")
    /\ current_disk = "tree"
    /\ InUse(superblock.inode[0])
    /\ ~InUse(superblock.inode[1])
    /\ ~InUse(superblock.inode[2])

\* C8: every inode whose in-use flag is clear has all eight bytes zero.
C8_FreeInodesZero ==
    \A i \in Inodes :
        ~InUse(superblock.inode[i]) => superblock.inode[i] = ZeroInode

C8_Witness ==
    /\ Succeeded("delete")
    /\ \E i \in Inodes : ~InUse(superblock.inode[i])
    /\ \E i \in Inodes : InUse(superblock.inode[i])

\* C9: while no volume is mounted, every operation but mount changes
\* neither the superblock, the current directory, the buffer nor any disk
\* image.
C9_UnmountedOpsChangeNothing ==
    [][(current_disk = NULL /\ last'.op # "mount")
        => UNCHANGED <<superblock, buffer, current_dir_inode, disks>>]_vars

\* C10: a successful mount sets the current directory to the root and the
\* buffer to zero, whatever they were before.
C10_MountResets ==
    [][(last'.op = "mount" /\ last'.diag = "ok")
        => current_dir_inode' = 0 /\ buffer' = 0]_vars

\* a mounted volume with a current directory other than the root and a
\* buffer that is not zero, and a command left to mount
C10_Witness ==
    /\ Mounted
    /\ current_dir_inode # 0
    /\ buffer # 0
    /\ steps < MaxSteps

(***************************************************************************)
(* Properties of create, delete and read.  The current directory is the    *)
(* root when current_dir_inode is 0; the entries of a directory are the    *)
(* in-use inodes whose parent field is its index, 127 for the root.        *)
(***************************************************************************)
CurrentParent == IF current_dir_inode = 0 THEN RootParent ELSE current_dir_inode

\* the entries of the current directory with this name
NamedHere(sb, name) ==
    {i \in Inodes :
        /\ InUse(sb.inode[i])
        /\ ParentOf(sb.inode[i]) = CurrentParent
        /\ sb.inode[i].name = name}

\* blocks [start, start+size) are free and lie on the disk after block 0
Fits(sb, start, size) ==
    /\ start >= 1
    /\ start + size <= NumBlocks
    /\ \A b \in start .. (start + size - 1) : sb.free_block_list[b] = 0

\* C15: a successful create(name, size) with size >= 1 takes the lowest
\* start >= 1 whose size blocks were free and on the disk, sets exactly those
\* bits, and fills a free inode with the name, the in-use flag, the size,
\* that start, no directory flag and the current directory as parent (127
\* in the root); with size 0 it makes a directory inode with start 0 and
\* size 0 and leaves the bitmap as it was.
C15_CreateAllocates ==
    [][(Mounted /\ last'.op = "create" /\ last'.diag = "ok") =>
        \E idx \in Inodes, start \in Blocks :
            /\ ~InUse(superblock.inode[idx])
            /\ superblock'.inode[idx].name = args'.name
            /\ superblock'.inode[idx].used_size = FlagBit + args'.num
            /\ superblock'.inode[idx].start_block = start
            /\ ParentOf(superblock'.inode[idx]) = CurrentParent
            /\ IF args'.num = 0
               THEN /\ IsDir(superblock'.inode[idx])
                    /\ start = 0
                    /\ superblock'.free_block_list = superblock.free_block_list
               ELSE /\ ~IsDir(superblock'.inode[idx])
                    /\ Fits(superblock, start, args'.num)
                    /\ \A t \in 1 .. (start - 1) : ~Fits(superblock, t, args'.num)
                    /\ \A b \in Blocks :
                          superblock'.free_block_list[b] =
                             IF b \in start .. (start + args'.num - 1) THEN 1
                             ELSE superblock.free_block_list[b]]_vars

\* a file of two blocks has been created in a subdirectory, after a block
\* that was in use
C15_Witness ==
    /\ Succeeded("create")
    /\ args.num = 2
    /\ current_dir_inode # 0
    /\ \E i \in NamedHere(superblock, args.name) :
          /\ IsFile(superblock.inode[i])
          /\ SizeOf(superblock.inode[i]) = 2
          /\ superblock.inode[i].start_block > 1

\* C16: create(name, size) is rejected whenever the current directory, root
\* or not, already has an in-use inode with that 5-byte name, and the
\* rejection changes neither the superblock nor the image.
C16_CreateRejectsExistingName ==
    [][(Mounted /\ last'.op = "create" /\ NamedHere(superblock, args'.name) # {})
        => (last'.diag # "ok" /\ UNCHANGED <<superblock, disks>>)]_vars

\* C17: a create that is rejected because no inode is free or because no
\* run of size free blocks exists allocates nothing: no bit of the bitmap
\* and no inode changes, and the image on disk is unchanged.
C17_RejectedCreateAllocatesNothing ==
    [][(last'.op = "create" /\ last'.diag \in {"superblock_full", "cannot_allocate"})
        => UNCHANGED <<superblock, disks>>]_vars

\* the directory target and every inode below it through the parent field
RECURSIVE SubtreeOf(_, _, _)
SubtreeOf(sb, found, n) ==
    IF n = 0 THEN found
    ELSE SubtreeOf(sb,
                   found \cup {i \in Inodes : /\ InUse(sb.inode[i])
                                              /\ ParentOf(sb.inode[i]) \in found},
                   n - 1)

\* the data blocks in the runs of the files among these inodes
BlocksOf(sb, inodes) ==
    {b \in DataBlocks : Covering(sb, b) \cap inodes # {}}

\* C18: delete(name) of a directory of the current directory removes it and
\* its whole subtree: those inodes become zero, the blocks of the deleted
\* files are cleared in the bitmap and zeroed on disk, and no other inode
\* and no other block changes.
C18_DeleteRemovesSubtree ==
    [][(/\ Mounted
        /\ last'.op = "delete"
        /\ \E t \in Inodes : /\ NamedHere(superblock, args'.name) = {t}
                             /\ IsDir(superblock.inode[t]))
        => LET target == CHOOSE t \in Inodes : NamedHere(superblock, args'.name) = {t}
               gone == SubtreeOf(superblock, {target}, NumInodes)
               freed == BlocksOf(superblock, gone)
           IN  /\ last'.diag = "ok"
               /\ \A i \in Inodes :
                     superblock'.inode[i] =
                        IF i \in gone THEN ZeroInode ELSE superblock.inode[i]
               /\ \A b \in Blocks :
                     superblock'.free_block_list[b] =
                        IF b \in freed THEN 0 ELSE superblock.free_block_list[b]
               /\ \A b \in DataBlocks :
                     disks'[current_disk].data[b] =
                        IF b \in freed THEN 0 ELSE MountedData[b]
               /\ disks'[current_disk].sb = superblock']_vars

\* the superblock before the create that filled inode idx
BeforeCreate(sb, idx) ==
    [SetRun(sb, sb.inode[idx].start_block, SizeOf(sb.inode[idx]), FALSE)
        EXCEPT !.inode[idx] = ZeroInode]

\* C19: in every current directory, root or not, a successful create(N, s)
\* of a name that was not there, followed at once by delete(N), succeeds and
\* puts the superblock, in memory and on disk, back to what it was before
\* the create.
C19_CreateThenDeleteRestores ==
    [][(/\ Mounted
        /\ last.op = "create" /\ last.diag = "ok"
        /\ last'.op = "delete"
        /\ args'.name = args.name
        /\ Cardinality(NamedHere(superblock, args.name)) = 1)
        => LET idx == CHOOSE i \in Inodes : NamedHere(superblock, args.name) = {i}
           IN  /\ last'.diag = "ok"
               /\ superblock' = BeforeCreate(superblock, idx)
               /\ disks'[current_disk].sb = superblock']_vars

\* C20: a successful read(name, block) of a file of the current directory
\* sets the buffer to the content of block start_block + block of that file
\* and changes neither the superblock nor a disk block.
C20_ReadFillsBuffer ==
    [][(/\ Mounted
        /\ last'.op = "read" /\ last'.diag = "ok"
        /\ \E f \in Inodes : /\ NamedHere(superblock, args'.name) = {f}
                             /\ IsFile(superblock.inode[f]))
        => LET f == CHOOSE i \in Inodes : NamedHere(superblock, args'.name) = {i}
           IN  /\ args'.num < SizeOf(superblock.inode[f])
               /\ buffer' = MountedData[superblock.inode[f].start_block + args'.num]
               /\ UNCHANGED <<superblock, disks>>]_vars

(***************************************************************************)
(* Properties of write, resize, defrag and cd.                             *)
(***************************************************************************)
\* C21: a successful write(name, block) of a file of the current directory
\* changes exactly one disk block, block start_block + block of that file,
\* which becomes equal to the buffer, and leaves the superblock, the buffer,
\* the current directory and every other disk block unchanged.
C21_WriteChangesOneBlock ==
    [][(/\ Mounted
        /\ last'.op = "write" /\ last'.diag = "ok"
        /\ \E f \in Inodes : /\ NamedHere(superblock, args'.name) = {f}
                             /\ IsFile(superblock.inode[f]))
        => LET f == CHOOSE i \in Inodes : NamedHere(superblock, args'.name) = {i}
               target == superblock.inode[f].start_block + args'.num
           IN  /\ args'.num < SizeOf(superblock.inode[f])
               /\ \A b \in DataBlocks :
                     disks'[current_disk].data[b] =
                        IF b = target THEN buffer ELSE MountedData[b]
               /\ disks'[current_disk].sb = disks[current_disk].sb
               /\ UNCHANGED <<superblock, buffer, current_dir_inode>>]_vars

\* the file of the current directory with this name, as a set: empty when
\* the directory has no entry of that name or the entry is a directory
FileHere(sb, name) == {i \in NamedHere(sb, name) : IsFile(sb.inode[i])}

\* C22: read(name, block) and write(name, block) are rejected when the
\* current directory has no entry with that name, when the entry is a
\* directory, or when block is not below the size of the file; a rejected
\* read leaves the buffer and a rejected write leaves the disk unchanged.
C22_ReadWriteRejected ==
    [][(Mounted /\ last'.op \in {"read", "write"}) =>
        /\ (\/ FileHere(superblock, args'.name) = {}
            \/ \E f \in Inodes :
                  /\ NamedHere(superblock, args'.name) = {f}
                  /\ args'.num >= SizeOf(superblock.inode[f]))
              => last'.diag # "ok"
        /\ (last'.op = "read" /\ last'.diag # "ok") => UNCHANGED buffer
        /\ (last'.op = "write" /\ last'.diag # "ok") => UNCHANGED disks]_vars

\* the file that the lookup of resize has found for the name, -1 for none
Resized == FindFile(superblock, args'.name)

\* blocks [s+cur, s+new_size) of the file found are on the disk and free
RoomAfter(sb, f, new_size) ==
    \A b \in (sb.inode[f].start_block + SizeOf(sb.inode[f])) ..
             (sb.inode[f].start_block + new_size - 1) :
        b < NumBlocks /\ sb.free_block_list[b] = 0

C25_RejectedGrowthChangesNothing ==
    [][(/\ Mounted
        /\ last'.op = "resize"
        /\ Resized # -1
        /\ args'.num > SizeOf(superblock.inode[Resized])
        /\ ~RoomAfter(superblock, Resized, args'.num)
        /\ ~\E t \in Blocks : Fits(superblock, t, args'.num))
        => (last'.diag = "cannot_expand" /\ UNCHANGED <<superblock, disks>>)]_vars

\* C26: every successful resize leaves the name, the parent field, the
\* in-use flag and the directory flag of the resized file unchanged, at the
\* same inode index, and leaves every other inode unchanged.
C26_ResizeKeepsIdentity ==
    [][(Mounted /\ last'.op = "resize" /\ last'.diag = "ok") =>
        /\ Resized # -1
        /\ superblock'.inode[Resized].name = superblock.inode[Resized].name
        /\ superblock'.inode[Resized].dir_parent = superblock.inode[Resized].dir_parent
        /\ InUse(superblock'.inode[Resized])
        /\ ~IsDir(superblock'.inode[Resized])
        /\ \A i \in Inodes \ {Resized} :
              superblock'.inode[i] = superblock.inode[i]]_vars

\* a resize has shrunk the two-block file of the tree image, in the
\* directory b, to one block
C26_Witness ==
    /\ Succeeded("resize")
    /\ current_disk = "tree"
    /\ current_dir_inode = 1
    /\ args.name = NameA /\ args.num = 1
    /\ superblock.inode[2] = Inode(NameA, FlagBit + 1, 2, 1)
    /\ superblock.free_block_list[3] = 0

\* the in-use files
FilesOf(sb) == {i \in Inodes : IsFile(sb.inode[i])}

RECURSIVE SumSizes(_, _)
SumSizes(sb, files) ==
    IF files = {} THEN 0
    ELSE LET i == CHOOSE j \in files : TRUE
         IN  SizeOf(sb.inode[i]) + SumSizes(sb, files \ {i})

\* the volume passes the six checks and no data block is in two files
ConsistentVolume(sb) ==
    /\ check_consistency(sb) = 0
    /\ \A b \in DataBlocks : Cardinality(Covering(sb, b)) <= 1

\* C27: after defrag on a consistent volume the files are packed from block
\* 1 in ascending order of their old start blocks: the new start of a file
\* is 1 plus the sizes of the files with a smaller old start, every size is
\* unchanged, and the bitmap has the bits from 1 to the watermark set and
\* every block from the watermark on free.
C27_DefragPacks ==
    [][(Mounted /\ last'.op = "defrag" /\ ConsistentVolume(superblock)) =>
        LET files == FilesOf(superblock)
            watermark == 1 + SumSizes(superblock, files)
        IN  /\ last'.diag = "ok"
            /\ FilesOf(superblock') = files
            /\ \A i \in files :
                  /\ superblock'.inode[i].start_block =
                        1 + SumSizes(superblock,
                               {j \in files : superblock.inode[j].start_block
                                                < superblock.inode[i].start_block})
                  /\ SizeOf(superblock'.inode[i]) = SizeOf(superblock.inode[i])
            /\ \A b \in DataBlocks :
                  superblock'.free_block_list[b] = IF b < watermark THEN 1 ELSE 0]_vars

\* on the packed image the file b, inode 1, had moved behind the file a,
\* inode 2, leaving block 1 free; a defrag has put a at block 1 and b after it
C27_Witness ==
    /\ Succeeded("defrag")
    /\ current_disk = "packed"
    /\ superblock.inode[2].start_block = 1
    /\ superblock.inode[1].start_block = 2
    /\ SizeOf(superblock.inode[1]) = 2
    /\ superblock.free_block_list = [b \in Blocks |-> IF b < 4 THEN 1 ELSE 0]
    /\ MountedData[1] = MaxData
    /\ MountedData[2] = 1

\* C28: defrag is idempotent: a defrag right after a defrag leaves the
\* superblock, in memory and on disk, and the data blocks as the first one
\* left them.
C28_DefragIdempotent ==
    [][(Mounted /\ last.op = "defrag" /\ last.diag = "ok" /\ last'.op = "defrag")
        => (superblock' = superblock /\ disks' = disks)]_vars

\* a defrag has just moved the two-block file of the tree image down to
\* block 1, and the command file has a command left
C28_Witness ==
    /\ Succeeded("defrag")
    /\ current_disk = "tree"
    /\ superblock.inode[2].start_block = 1
    /\ SizeOf(superblock.inode[2]) = 2
    /\ MountedData[1] = 1
    /\ steps < MaxSteps

\* C29: cd("..") leaves the current directory at the root when it is the
\* root; otherwise it sets it to the parent recorded in the inode of the
\* current directory, where a recorded parent of 127 means the root.
\* cd(".") changes nothing.
C29_CdParent ==
    [][(Mounted /\ last'.op = "cd") =>
        /\ args'.name = NameDotDot =>
              current_dir_inode' =
                 IF current_dir_inode = 0 THEN 0
                 ELSE IF ParentOf(superblock.inode[current_dir_inode]) = RootParent
                 THEN 0
                 ELSE ParentOf(superblock.inode[current_dir_inode])
        /\ args'.name = NameDot =>
              UNCHANGED <<superblock, buffer, current_disk, current_dir_inode,
                          disks>>]_vars

\* the directories of the current directory with this name
DirsHere(sb, name) == {i \in NamedHere(sb, name) : IsDir(sb.inode[i])}

\* C30: cd(name) with a name other than "." and ".." sets the current
\* directory to the inode of the in-use directory of the current directory
\* with that name; when there is none (no entry of that name, or a file) it
\* is rejected and the current directory is unchanged; in the root as in
\* every other directory.
C30_CdChild ==
    [][(Mounted /\ last'.op = "cd" /\ args'.name \notin {NameDot, NameDotDot}) =>
        IF DirsHere(superblock, args'.name) = {}
        THEN last'.diag # "ok" /\ UNCHANGED current_dir_inode
        ELSE /\ last'.diag = "ok"
             /\ current_dir_inode' \in DirsHere(superblock, args'.name)]_vars

\* the entries of directory d, the root when d is 0: the in-use inodes whose
\* parent field is d, 127 for the root
EntriesOf(sb, d) ==
    {i \in Inodes : /\ InUse(sb.inode[i])
                    /\ ParentOf(sb.inode[i]) = IF d = 0 THEN RootParent ELSE d}

\* the directory above d: the root for the root and for a recorded parent
\* of 127
AboveOf(sb, d) ==
    IF d = 0 \/ ParentOf(sb.inode[d]) = RootParent THEN 0
    ELSE ParentOf(sb.inode[d])

\* the entries among these inodes in ascending inode index, each directory
\* with the number of its entries plus 2 and each file with its size
RECURSIVE ListingOf(_, _, _)
ListingOf(sb, entries, i) ==
    IF i >= NumInodes THEN <<>>
    ELSE (IF i \in entries
          THEN <<IF IsDir(sb.inode[i])
                 THEN LsLine(sb.inode[i].name,
                             Cardinality({j \in Inodes : InUse(sb.inode[j])
                                             /\ ParentOf(sb.inode[j]) = i}) + 2,
                             FALSE)
                 ELSE LsLine(sb.inode[i].name, SizeOf(sb.inode[i]), TRUE)>>
          ELSE <<>>) \o ListingOf(sb, entries, i + 1)

\* C31: ls reports for "." the number of entries of the current directory
\* plus 2, for ".." the number of entries of the directory above it plus 2
\* (the root is above the root), and then exactly the entries of the
\* current directory in ascending inode index, a directory with the number
\* of its own entries plus 2 and a file with its size; in the root as in
\* every other directory.
C31_LsLists ==
    (Mounted /\ last.op = "ls") =>
        last.code =
            <<LsLine(NameDot,
                     Cardinality(EntriesOf(superblock, current_dir_inode)) + 2, FALSE),
              LsLine(NameDotDot,
                     Cardinality(EntriesOf(superblock,
                                           AboveOf(superblock, current_dir_inode))) + 2,
                     FALSE)>>
            \o ListingOf(superblock, EntriesOf(superblock, current_dir_inode), 0)

\* C32: while a volume is mounted, after every operation, a rejected mount
\* of another image included, block 0 of the mounted image equals the
\* superblock in memory.
C32_DiskSuperblockIsMemory ==
    Mounted => disks[current_disk].sb = superblock

\* C38: after any sequence of operations on a mounted volume, rejected
\* operations and rejected mounts included, the current directory is the
\* root or the index of an inode that is in use and is a directory.
C38_CurrentDirectoryExists ==
    Mounted =>
        \/ current_dir_inode = 0
        \/ /\ InUse(superblock.inode[current_dir_inode])
           /\ IsDir(superblock.inode[current_dir_inode])

\* C39: the free data blocks of the images being zero at the start, after
\* any sequence of operations every data block of the mounted image whose
\* bit is 0 in the superblock of the image is zero on disk.
C39_FreeBlocksZero ==
    Mounted =>
        \A b \in DataBlocks :
            disks[current_disk].sb.free_block_list[b] = 0 => MountedData[b] = 0

\* the smaller of two numbers
Min(a, b) == IF a < b THEN a ELSE b

\* C34: every successful resize from cur to new_size keeps the first
\* min(cur, new_size) blocks of the file: block new_start + k after the
\* resize has the content that block old_start + k had before it, whether
\* the file grew in place, moved or shrank; and no block of another file
\* changes content.
C34_ResizeKeepsData ==
    [][(Mounted /\ last'.op = "resize" /\ last'.diag = "ok") =>
        LET f == Resized
            old_start == superblock.inode[f].start_block
            new_start == superblock'.inode[f].start_block
            cur == SizeOf(superblock.inode[f])
        IN  /\ \A k \in 0 .. (Min(cur, args'.num) - 1) :
                  disks'[current_disk].data[new_start + k] = MountedData[old_start + k]
            /\ \A g \in FilesOf(superblock) \ {f} :
                  \A b \in DataBlocks :
                     g \in Covering(superblock, b) =>
                        disks'[current_disk].data[b] = MountedData[b]]_vars

\* the file b of the packed image, whose block has the content 1, has moved
\* to blocks 3 and 4: block 3 has the content 1 and the block of the file a
\* has kept its content
C34_Witness ==
    /\ Succeeded("resize")
    /\ current_disk = "packed"
    /\ args.name = NameB /\ args.num = 2
    /\ superblock.inode[1].start_block = 3
    /\ MountedData[3] = 1
    /\ MountedData[2] = MaxData

\* C36: the root is not the directory at inode 0: an operation in the root,
\* where the program is right after a mount, resolves exactly the in-use
\* inodes whose parent field is 127: a delete of a name finds an inode iff
\* an in-use inode with that name has the parent 127, and a create records
\* the parent 127.
C36_RootIsNotInodeZero ==
    [][(Mounted /\ last.op = "mount" /\ last.diag = "ok") =>
        /\ last'.op = "delete" =>
              (last'.diag = "ok" <=>
                  \E i \in Inodes : /\ InUse(superblock.inode[i])
                                    /\ ParentOf(superblock.inode[i]) = RootParent
                                    /\ superblock.inode[i].name = args'.name)
        /\ (last'.op = "create" /\ last'.diag = "ok") =>
              \E i \in Inodes : /\ ~InUse(superblock.inode[i])
                                /\ InUse(superblock'.inode[i])
                                /\ ParentOf(superblock'.inode[i]) = RootParent]_vars

\* C35: on every image that the mount accepts, a directory that is its own
\* parent included, delete(name) terminates: it completes or it rejects.
C35_DeleteTerminates ==
    last.op = "delete" => (~crashed /\ last.diag \in {"ok", "not_exist"})

\* C40: during defrag on a volume that the mount accepted, the watermark is
\* at most the start block of the file being processed: no file moves to a
\* higher block number.
C40_DefragMovesDown ==
    [][(Mounted /\ last'.op = "defrag") =>
        \A f \in FilesOf(superblock) :
            superblock'.inode[f].start_block <= superblock.inode[f].start_block]_vars

\* C33: within resize and within defrag every write of a data block, the
\* copies to the new position and the zeroing of the old one, happens
\* before the one write of the superblock to block 0: while a data write is
\* still to come the superblock on disk is the one from before the
\* operation, and the write of the superblock changes no data block and
\* ends the operation.
C33_DataBeforeSuperblock ==
    [][Writing =>
        IF Head(last.code).block = 0
        THEN /\ last'.diag = "ok"
             /\ disks'[current_disk].data = MountedData
        ELSE disks'[current_disk].sb = disks[current_disk].sb]_vars

\* a relocation is under way on the packed image: the block of the file b
\* has been copied to block 3, its old block is not yet zeroed, and the
\* superblock on disk still has the file at block 1
C33_Witness ==
    /\ Writing
    /\ last.op = "resize"
    /\ current_disk = "packed"
    /\ args.name = NameB
    /\ MountedData[3] = 1
    /\ MountedData[1] = 1
    /\ disks[current_disk].sb.inode[1].start_block = 1

(***************************************************************************)
(* Properties of the consistency verifier (SpecCheck).                     *)
(***************************************************************************)
\* the superblock of the image that the last mount command has read
Probed == disks["bad"].sb

\* the last command was a mount of the image at "bad"
MountedProbe == last.op = "mount" /\ args.path = "bad"

Reported(code) ==
    IF code = 0 THEN last.diag = "ok"
    ELSE last.diag = "inconsistent" /\ last.code = code

CheckFails(sb, c) ==
    CASE c = 1 -> Check1Fails(sb)
      [] c = 2 -> Check2Fails(sb)
      [] c = 3 -> Check3Fails(sb)
      [] c = 4 -> Check4Fails(sb)
      [] c = 5 -> Check5Fails(sb)
      [] OTHER -> Check6Fails(sb)

C12_FreeInodeNotZeroReportsOne ==
    (/\ MountedProbe
     /\ \E i \in Inodes : ~InUse(Probed.inode[i]) /\ Probed.inode[i] # ZeroInode)
        => Reported(1)

\* C13: for an image that passes checks 1 to 4, a mount fails with error
\* code 5 whenever two distinct in-use inodes have the same parent value,
\* the root's 127 included, and the same 5-byte name.
C13_SameNameSiblingsReportFive ==
    (/\ MountedProbe
     /\ \A c \in 1 .. 4 : ~CheckFails(Probed, c)
     /\ \E i, j \in Inodes :
           /\ i # j
           /\ InUse(Probed.inode[i]) /\ InUse(Probed.inode[j])
           /\ ParentOf(Probed.inode[i]) = ParentOf(Probed.inode[j])
           /\ Probed.inode[i].name = Probed.inode[j].name)
        => Reported(5)

\* the bitmap that check 6 expects: bit 0 and the union of the file runs
ExpectedBit(sb, b) == IF b = 0 \/ Covering(sb, b) # {} THEN 1 ELSE 0

\* C14: for an image that passes checks 1 to 5, a mount fails with error
\* code 6 whenever a data block lies in the runs of two in-use files, even
\* with its bit set, and whenever the bitmap differs in any bit from bit 0
\* plus the union of the file runs.
C14_BlockConflictsReportSix ==
    (/\ MountedProbe
     /\ \A c \in 1 .. 5 : ~CheckFails(Probed, c)
     /\ \/ \E b \in DataBlocks : Cardinality(Covering(Probed, b)) >= 2
        \/ \E b \in Blocks : Probed.free_block_list[b] # ExpectedBit(Probed, b))
        => Reported(6)

\* C37: the name comparison is exact over all five bytes: for an image that
\* passes checks 1 to 4, a mount reports check 5 iff two distinct in-use
\* inodes with the same parent have the same five bytes as name; names that
\* differ only after a zero byte, or only by a space for a zero byte, are
\* different names.
C37_NamesComparedExactly ==
    (MountedProbe /\ \A c \in 1 .. 4 : ~CheckFails(Probed, c)) =>
        (Reported(5) <=>
            \E i, j \in Inodes :
                /\ i # j
                /\ InUse(Probed.inode[i]) /\ InUse(Probed.inode[j])
                /\ ParentOf(Probed.inode[i]) = ParentOf(Probed.inode[j])
                /\ Probed.inode[i].name = Probed.inode[j].name)

====
